---- MODULE Spec2Model ----
(***************************************************************************)
(* Model of typeform_browserless.py: a batch job that reads rows, reads a  *)
(* form schema once, and for each row asks a completion service for an     *)
(* answer map and replays the form in a browser.                           *)
(*                                                                         *)
(* Python strings are sequences of one-character strings, so that split,   *)
(* lower, isdigit, int(), str() and startswith are computed, not assumed.  *)
(* A Python value (an answer) is a record [kind, n, s]:                    *)
(*   kind = "none" : None (also what dict.get gives for a missing key)     *)
(*   kind = "int"  : the integer n                                         *)
(*   kind = "str"  : the string s                                          *)
(***************************************************************************)
EXTENDS Integers, Sequences, FiniteSets, TLC

\* ------------------------------------------------------------- bounds
MaxRows == 2
MaxFields == 2

\* ------------------------------------------------------------- values
None == [kind |-> "none", n |-> 0, s |-> <<>>]
IntV(i) == [kind |-> "int", n |-> i, s |-> <<>>]
StrV(t) == [kind |-> "str", n |-> 0, s |-> t]

\* Python truth value of an answer: None, 0 and "" are falsy.
Truthy(v) ==
    CASE v.kind = "none" -> FALSE
      [] v.kind = "int" -> v.n # 0
      [] OTHER -> v.s # <<>>

\* Python's `a or b`.
PyOr(a, b) == IF Truthy(a) THEN a ELSE b

DigitChars == <<"0", "1", "2", "3", "4", "5", "6", "7", "8", "9">>
LowerChars == <<"a", "b", "c", "d", "e", "f", "g", "h", "i", "j", "k", "l", "m",
                "n", "o", "p", "q", "r", "s", "t", "u", "v", "w", "x", "y", "z",
                "{", "|", "}", "~">>
UpperChars == <<"A", "B", "C", "D", "E", "F", "G", "H", "I", "J", "K", "L", "M",
                "N", "O", "P", "Q", "R", "S", "T", "U", "V", "W", "X", "Y", "Z">>

IsDigitChar(c) == \E i \in 1..10 : DigitChars[i] = c
DigitVal(c) == (CHOOSE i \in 1..10 : DigitChars[i] = c) - 1

\* str.isdigit(): non-empty and every character a digit.
IsDigit(t) == t # <<>> /\ \A i \in 1..Len(t) : IsDigitChar(t[i])

RECURSIVE ParseNat(_)
ParseNat(t) ==
    IF t = <<>> THEN 0
    ELSE 10 * ParseNat(SubSeq(t, 1, Len(t) - 1)) + DigitVal(t[Len(t)])

RECURSIVE NatToStr(_)
NatToStr(i) ==
    IF i < 10 THEN <<DigitChars[i + 1]>>
    ELSE NatToStr(i \div 10) \o <<DigitChars[(i % 10) + 1]>>

\* str(x)
Str(v) ==
    CASE v.kind = "none" -> <<"N", "o", "n", "e">>
      [] v.kind = "int" -> IF v.n < 0 THEN <<"-">> \o NatToStr(0 - v.n) ELSE NatToStr(v.n)
      [] OTHER -> v.s

\* str.lower(), one character
LowerChar(c) ==
    IF \E i \in 1..26 : UpperChars[i] = c
    THEN LowerChars[CHOOSE i \in 1..26 : UpperChars[i] = c]
    ELSE c
Lower(t) == [i \in 1..Len(t) |-> LowerChar(t[i])]

\* str.replace(" ", "")
RemoveSpaces(t) == SelectSeq(t, LAMBDA c : c # " ")

\* str.split(","): always at least one token, empty tokens kept.
RECURSIVE Split(_, _)
Split(t, sep) ==
    IF \A i \in 1..Len(t) : t[i] # sep THEN <<t>>
    ELSE LET k == CHOOSE i \in 1..Len(t) :
                      t[i] = sep /\ \A j \in 1..(i - 1) : t[j] # sep
         IN <<SubSeq(t, 1, k - 1)>> \o Split(SubSeq(t, k + 1, Len(t)), sep)

\* chr(i + ord('a')) for the code points 'a'..'~'
ChrFromA(i) == LowerChars[i + 1]

\* str.strip() of blanks, as int() applies it to a string argument
RECURSIVE Strip(_)
Strip(t) ==
    IF t # <<>> /\ t[1] = " " THEN Strip(Tail(t))
    ELSE IF t # <<>> /\ t[Len(t)] = " " THEN Strip(SubSeq(t, 1, Len(t) - 1))
    ELSE t

\* int(x): [ok |-> FALSE] stands for the ValueError/TypeError it raises.
IntOf(v) ==
    CASE v.kind = "int" -> [ok |-> TRUE, n |-> v.n]
      [] v.kind = "none" -> [ok |-> FALSE, n |-> 0]
      [] OTHER ->
           LET t == Strip(v.s)
               neg == t # <<>> /\ t[1] = "-"
               body == IF t # <<>> /\ t[1] \in {"-", "+"} THEN Tail(t) ELSE t
           IN IF IsDigit(body)
              THEN [ok |-> TRUE, n |-> IF neg THEN 0 - ParseNat(body) ELSE ParseNat(body)]
              ELSE [ok |-> FALSE, n |-> 0]

\* str.startswith(p)
StartsWith(t, p) == Len(t) >= Len(p) /\ SubSeq(t, 1, Len(p)) = p


\* ------------------------------------------------------------- driver, per field
\* One call on the page (or on requests, for the upload download) made on
\* behalf of field f. The trace records every call attempted, in order.
Act(a, arg, f) == [act |-> a, arg |-> arg, f |-> f]
Advance(f) == Act("advance", <<>>, f)

PITCH_DECK_PATH == <<"placeholder_deck.pdf">>
\* tmp_file.name of the NamedTemporaryFile the download is written to
TmpFileName == <<"tmpfile">>

TextTypes == {"short_text", "email", "number", "website", "text", "long_text"}
ChoiceTypes == {"multiple_choice", "picture_choice", "checkboxes"}

\* dict.get(key): None when the key is missing
Get(m, k) == IF k \in DOMAIN m THEN m[k] ELSE None

\* provided_answer = answers.get(title) or answers.get(ref)
ProvidedAnswer(m, field) == PyOr(Get(m, field.title), Get(m, field.ref))

\* the key pressed for one comma-separated token of a choice answer
ChoiceKey(token) ==
    LET key == Lower(token)
    IN IF IsDigit(key) THEN <<ChrFromA(ParseNat(key))>> ELSE key

ChoiceKeys(pv) ==
    IF pv.kind = "none" THEN <<>>
    ELSE LET toks == Split(RemoveSpaces(Str(pv)), ",")
         IN [k \in 1..Len(toks) |-> ChoiceKey(toks[k])]

\* DropdownIndex without the "index = 1" of the except branch
DropdownIndexNoDefault(pv) ==
    IF ~Truthy(pv) THEN 0
    ELSE LET r == IntOf(pv)
         IN IF r.ok /\ r.n > 0 THEN r.n ELSE 0

\* the number of ArrowDown presses of the dropdown branch
DropdownIndex(pv) ==
    IF ~Truthy(pv) THEN 0
    ELSE LET r == IntOf(pv)
             index == IF r.ok THEN r.n ELSE 1
         IN IF index > 0 THEN index ELSE 0

\* The body of the try block for one field: the calls it makes when none of
\* them raises (acts), and whether the body then raises by itself (raises),
\* which skips the branch's trailing safe_press_enter.
TryBody(field, pv, f) ==
    CASE field.type \in TextTypes ->
           [acts |-> <<Act("type", IF Truthy(pv) THEN Str(pv) ELSE <<"N", "/", "A">>, f),
                       Advance(f)>>,
            raises |-> FALSE]
      [] field.type \in ChoiceTypes ->
           [acts |-> [k \in 1..Len(ChoiceKeys(pv)) |-> Act("press", ChoiceKeys(pv)[k], f)]
                     \o <<Advance(f)>>,
            raises |-> FALSE]
      [] field.type = "dropdown" ->
           [acts |-> <<Act("press", <<"Tab">>, f), Advance(f)>>
                     \o [k \in 1..DropdownIndex(pv) |-> Act("press", <<"ArrowDown">>, f)]
                     \o <<Advance(f)>>,
            raises |-> FALSE]
      [] field.type = "file_upload" ->
           IF ~Truthy(pv)
           THEN [acts |-> <<Act("attach", PITCH_DECK_PATH, f), Advance(f)>>, raises |-> FALSE]
           ELSE IF pv.kind # "str"
           THEN [acts |-> <<>>, raises |-> TRUE]    \* int has no startswith
           ELSE IF StartsWith(pv.s, <<"h", "t", "t", "p">>)
           THEN [acts |-> <<Act("download", pv.s, f), Act("attach", TmpFileName, f),
                            Advance(f)>>,
                 raises |-> FALSE]
           ELSE [acts |-> <<Act("attach", PITCH_DECK_PATH, f), Advance(f)>>, raises |-> FALSE]
      [] OTHER -> [acts |-> <<Advance(f)>>, raises |-> FALSE]

\* The calls whose exception reaches the except clause: everything but the
\* Enter of safe_press_enter, which swallows its own.
Raisable(acts) == {j \in 1..Len(acts) : acts[j].act # "advance"}

\* FieldCalls with an except clause that only logs
FieldCallsNoAdvanceOnError(field, pv, f, cut) ==
    LET body == TryBody(field, pv, f)
    IN IF cut # 0 THEN SubSeq(body.acts, 1, cut)
       ELSE IF body.raises THEN body.acts
       ELSE body.acts

\* The calls made for one field when call number cut raises (cut = 0: no
\* call raises): the except clause ends the field with safe_press_enter.
FieldCalls(field, pv, f, cut) ==
    LET body == TryBody(field, pv, f)
    IN IF cut # 0 THEN SubSeq(body.acts, 1, cut) \o <<Advance(f)>>
       ELSE IF body.raises THEN body.acts \o <<Advance(f)>>
       ELSE body.acts

\* ------------------------------------------------------------- inputs
\* A Field as get_form_fields builds it (the options list is never read by
\* the driver and is left out).
Field(ref, title, type) == [ref |-> ref, title |-> title, type |-> type]

EmailField == Field("r_email", "Email", "short_text")
InterestField == Field("r_interest", "Interest", "multiple_choice")
CountryField == Field("r_country", "Country", "dropdown")
DeckField == Field("r_deck", "Deck", "file_upload")
RatingField == Field("r_rating", "Rating", "rating")

FieldPool == {EmailField, InterestField, CountryField, DeckField, RatingField}

\* one field of every type tag the driver distinguishes
TypedFieldPool ==
    FieldPool \cup
    {Field("r_bio", "Bio", "long_text"), Field("r_mail", "Mail", "email"),
     Field("r_age", "Age", "number"), Field("r_site", "Site", "website"),
     Field("r_text", "Text", "text"), Field("r_pic", "Pic", "picture_choice"),
     Field("r_boxes", "Boxes", "checkboxes")}

SeqsUpTo(S, n) == UNION {[1..k -> S] : k \in 0..n}

\* the schemas the form service may report
Schemas == SeqsUpTo(FieldPool, MaxFields)
OneFieldSchemas == {<<fd>> : fd \in TypedFieldPool}

s_email == <<"a", "@", "b", ".", "c", "o", "m">>
s_url == <<"h", "t", "t", "p", ":", "/", "/", "x">>

\* the answer the completion service gives a field when it follows its rules
RuleAnswer(title) ==
    CASE title = "Email" -> StrV(s_email)
      [] title = "Interest" -> StrV(<<"0">>)
      [] title = "Country" -> StrV(<<"2">>)
      [] title = "Deck" -> StrV(s_url)
      [] OTHER -> IntV(5)

\* What json.loads makes of the completion: a dict (kind "object", items m),
\* another JSON value such as a list (kind "other"), or a JSONDecodeError
\* (kind "error").
Reply(kind, m) == [kind |-> kind, m |-> m]
NoItems == [k \in {} |-> None]

Titles(fs) == {fs[i].title : i \in 1..Len(fs)}

\* replies keyed by title, each title answered by the rules or left out
RuleReplies(fs) ==
    {Reply("object", [k \in K |-> RuleAnswer(k)]) : K \in SUBSET Titles(fs)}
    \cup {Reply("other", NoItems), Reply("error", NoItems)}

AnswerValues ==
    {StrV(s_email), StrV(<<>>), IntV(0), IntV(7), IntV(3),
     StrV(<<"0">>), StrV(<<"0", ",", "2">>), StrV(<<"1", ",", " ", "0">>),
     StrV(<<"B">>), StrV(<<"3">>), StrV(<<" ", "2">>), StrV(<<"-", "1">>),
     StrV(<<"x", "y">>), StrV(s_url), StrV(<<"d", ".", "p", "d", "f">>)}
RefValues == {IntV(0), StrV(<<"1">>), StrV(<<"h", "t", "t", "p", "s">>)}

\* replies for a one-field schema: any value under the title, under the
\* reference id, under both or under neither
AnyReplies(fs) ==
    LET fd == fs[1]
        byTitle == {[k \in {fd.title} |-> v] : v \in AnswerValues} \cup {NoItems}
        byRef == {[k \in {fd.ref} |-> v] : v \in RefValues} \cup {NoItems}
    IN IF fs = <<>> THEN {Reply("object", NoItems)}
       ELSE {Reply("object", a @@ b) : a \in byTitle, b \in byRef}
            \cup {Reply("other", NoItems), Reply("error", NoItems)}

\* ------------------------------------------------------------- state
VARIABLES
    pc,          \* where the main flow is
    crashAt,     \* the call whose exception left the program, "" if none
    nrows,       \* len(rows)
    row,         \* 1-based number of the row being processed, 0 before the loop
    fields,      \* what get_form_fields returned
    fetchFailed, \* whether get_form_fields took its except branch
    fetches,     \* calls of get_form_fields
    answers,     \* the mapping passed to fill_and_submit_form
    idx,         \* fields handled so far in this fill
    trace,       \* calls made for the fields and the submit in this fill
    caught,      \* fields whose except clause ran in this fill
    faulted,     \* fields in which a page/requests call raised in this fill
    started,     \* what the start-button block did in this fill
    ack,         \* outcome of the final submission block in this fill
    openSessions, \* browsers launched and not closed by browser.close()
    synths,      \* per row, calls of map_row_to_typeform
    sessions,    \* per row, browsers launched
    closes,      \* per row, calls of browser.close()
    submits      \* per row, Control+Enter presses

vars == <<pc, crashAt, nrows, row, fields, fetchFailed, fetches, answers, idx, trace,
          caught, faulted, started, ack, openSessions, synths, sessions, closes, submits>>

mainVars == <<nrows, row, fields, fetchFailed, fetches>>
fillVars == <<answers, idx, trace, caught, faulted, started, ack>>
countVars == <<openSessions, synths, sessions, closes, submits>>

RowIds == 1..MaxRows
Bump(f, r) == [f EXCEPT ![r] = @ + 1]

Init ==
    /\ pc = "rows"
    /\ crashAt = ""
    /\ nrows = 0
    /\ row = 0
    /\ fields = <<>>
    /\ fetchFailed = FALSE
    /\ fetches = 0
    /\ answers = Reply("object", NoItems)
    /\ idx = 0
    /\ trace = <<>>
    /\ caught = {}
    /\ faulted = {}
    /\ started = "none"
    /\ ack = "none"
    /\ openSessions = 0
    /\ synths = [r \in RowIds |-> 0]
    /\ sessions = [r \in RowIds |-> 0]
    /\ closes = [r \in RowIds |-> 0]
    /\ submits = [r \in RowIds |-> 0]

\* An exception nobody catches: the interpreter exits.
Crash(at) == pc' = "crashed" /\ crashAt' = at

\* ------------------------------------------------------------- main flow
get_rows ==
    /\ pc = "rows"
    /\ \/ /\ \E n \in 0..MaxRows : nrows' = n
          /\ pc' = "schema"
          /\ UNCHANGED crashAt
       \/ Crash("rows") /\ UNCHANGED nrows
    /\ UNCHANGED <<row, fields, fetchFailed, fetches, fillVars, countVars>>

\* get_form_fields returning from its except branch the fields built so far
FieldsOnErrorPartial == <<EmailField>>

\* what get_form_fields returns from its except branch
FieldsOnError == <<>>

get_form_fields(schemas) ==
    /\ pc = "schema"
    /\ fetches' = fetches + 1
    /\ \/ \E fs \in schemas : fields' = fs /\ fetchFailed' = FALSE
       \/ fields' = FieldsOnError /\ fetchFailed' = TRUE
    /\ pc' = "loop"
    /\ UNCHANGED <<crashAt, nrows, row, fillVars, countVars>>

\* for index, row in enumerate(rows)
NextRow ==
    /\ pc = "loop"
    /\ IF row < nrows THEN row' = row + 1 /\ pc' = "synth"
                      ELSE row' = row /\ pc' = "done"
    /\ UNCHANGED <<crashAt, nrows, fields, fetchFailed, fetches, fillVars, countVars>>

\* map_row_to_typeform with the JSONDecodeError caught and the row skipped
map_row_skip_bad_json(replies) ==
    /\ pc = "synth"
    /\ synths' = Bump(synths, row)
    /\ \/ Crash("completion") /\ UNCHANGED answers
       \/ \E r \in replies :
            IF r.kind = "error"
            THEN pc' = "loop" /\ UNCHANGED <<crashAt, answers>>
            ELSE answers' = r /\ pc' = "launch" /\ UNCHANGED crashAt
    /\ UNCHANGED <<mainVars, idx, trace, caught, faulted, started, ack,
                   openSessions, sessions, closes, submits>>

map_row_to_typeform(replies) ==
    /\ pc = "synth"
    /\ synths' = Bump(synths, row)
    /\ \/ Crash("completion") /\ UNCHANGED answers
       \/ \E r \in replies :
            IF r.kind = "error"
            THEN Crash("json") /\ UNCHANGED answers
            ELSE answers' = r /\ pc' = "launch" /\ UNCHANGED crashAt
    /\ UNCHANGED <<mainVars, idx, trace, caught, faulted, started, ack,
                   openSessions, sessions, closes, submits>>

\* ------------------------------------------------------------- fill_and_submit_form
\* with sync_playwright() as p: browser = p.chromium.launch(...)
LaunchBrowser ==
    /\ pc = "launch"
    /\ idx' = 0 /\ trace' = <<>> /\ caught' = {} /\ faulted' = {}
    /\ started' = "none" /\ ack' = "none"
    /\ \/ /\ openSessions' = openSessions + 1
          /\ sessions' = Bump(sessions, row)
          /\ pc' = "load"
          /\ UNCHANGED crashAt
       \/ Crash("launch") /\ UNCHANGED <<openSessions, sessions>>
    /\ UNCHANGED <<mainVars, answers, synths, closes, submits>>

\* new_page, set_default_timeout, goto, wait_for_load_state: none is in a try
LoadPage ==
    /\ pc = "load"
    /\ \/ pc' = "start" /\ UNCHANGED crashAt
       \/ Crash("load")
    /\ UNCHANGED <<mainVars, fillVars, countVars>>

\* The start-button block; every exception in it is swallowed.
StartOutcomes == {"none", "clicked", "scripted", "gave_up"}

ClickStart ==
    /\ pc = "start"
    /\ \E o \in StartOutcomes : started' = o
    /\ pc' = "fields"
    /\ UNCHANGED <<crashAt, mainVars, answers, idx, trace, caught, faulted, ack, countVars>>

\* page.wait_for_timeout(500) at the top of the loop body is outside the try
PauseRaises ==
    /\ pc = "fields"
    /\ idx < Len(fields)
    /\ Crash("pause")
    /\ UNCHANGED <<mainVars, fillVars, countVars>>

\* answers.get(...) on a value that is no dict is outside the try
LookupRaises ==
    /\ pc = "fields"
    /\ idx < Len(fields)
    /\ answers.kind # "object"
    /\ Crash("lookup")
    /\ UNCHANGED <<mainVars, fillVars, countVars>>

\* HandleField walking reversed(fields)
HandleFieldReversed ==
    /\ pc = "fields"
    /\ idx < Len(fields)
    /\ answers.kind = "object"
    /\ LET f == Len(fields) - idx
           field == fields[f]
           pv == ProvidedAnswer(answers.m, field)
           body == TryBody(field, pv, f)
       IN \E cut \in {0} \cup Raisable(body.acts) :
            /\ trace' = trace \o FieldCalls(field, pv, f, cut)
            /\ caught' = IF cut # 0 \/ body.raises THEN caught \cup {f} ELSE caught
            /\ faulted' = IF cut # 0 THEN faulted \cup {f} ELSE faulted
    /\ idx' = idx + 1
    /\ UNCHANGED <<pc, crashAt, mainVars, answers, started, ack, countVars>>

\* One iteration of the field loop, from the lookup to the end of the
\* try/except; cut is the call that raises, 0 when none does.
HandleField ==
    /\ pc = "fields"
    /\ idx < Len(fields)
    /\ answers.kind = "object"
    /\ LET f == idx + 1
           field == fields[f]
           pv == ProvidedAnswer(answers.m, field)
           body == TryBody(field, pv, f)
       IN \E cut \in {0} \cup Raisable(body.acts) :
            /\ trace' = trace \o FieldCalls(field, pv, f, cut)
            /\ caught' = IF cut # 0 \/ body.raises THEN caught \cup {f} ELSE caught
            /\ faulted' = IF cut # 0 THEN faulted \cup {f} ELSE faulted
    /\ idx' = idx + 1
    /\ UNCHANGED <<pc, crashAt, mainVars, answers, started, ack, countVars>>

\* The final submission block: Control+Enter, then the wait for "Thank you".
\* Both sit in try blocks, so each outcome goes on to browser.close().
SubmitOutcomes == {"thanks", "no_ack", "press_raised"}

FinalSubmit ==
    /\ pc = "fields"
    /\ idx = Len(fields)
    /\ trace' = Append(trace, Act("submit", <<"Control+Enter">>, 0))
    /\ submits' = Bump(submits, row)
    /\ \E o \in SubmitOutcomes : ack' = o
    /\ pc' = "close"
    /\ UNCHANGED <<crashAt, mainVars, answers, idx, caught, faulted, started,
                   openSessions, synths, sessions, closes>>

\* CloseBrowser with browser.close() moved under the "Thank you" branch
CloseBrowserOnlyOnThanks ==
    /\ pc = "close"
    /\ IF ack = "thanks"
       THEN openSessions' = openSessions - 1 /\ closes' = Bump(closes, row)
       ELSE UNCHANGED <<openSessions, closes>>
    /\ idx' = 0 /\ trace' = <<>> /\ faulted' = {} /\ started' = "none"
    /\ pc' = "loop"
    /\ UNCHANGED <<crashAt, mainVars, answers, caught, ack, synths, sessions, submits>>

\* browser.close(), the last statement of the with block, and the return.
\* The call's locals go with it; ack and caught stay as the record of how
\* the call ended.
CloseBrowser ==
    /\ pc = "close"
    /\ \/ /\ openSessions' = openSessions - 1
          /\ closes' = Bump(closes, row)
          /\ idx' = 0 /\ trace' = <<>> /\ faulted' = {} /\ started' = "none"
          /\ pc' = "loop"
          /\ UNCHANGED crashAt
       \/ /\ Crash("close")     \* browser.close() itself raises, in no try
          /\ UNCHANGED <<openSessions, closes, idx, trace, faulted, started>>
    /\ UNCHANGED <<mainVars, answers, caught, ack, synths, sessions, submits>>

Drive ==
    \/ LaunchBrowser \/ LoadPage \/ ClickStart \/ PauseRaises \/ LookupRaises
    \/ HandleField \/ FinalSubmit \/ CloseBrowser

\* ------------------------------------------------------------- specifications
\* the whole run, the completion service answering by its rules or not at all
Next ==
    \/ get_rows
    \/ get_form_fields(Schemas)
    \/ NextRow
    \/ map_row_to_typeform(RuleReplies(fields))
    \/ Drive

Spec == Init /\ [][Next]_vars

\* a one-field form of any type, the completion service answering anything
NextAnswers ==
    \/ get_rows
    \/ get_form_fields(OneFieldSchemas)
    \/ NextRow
    \/ map_row_to_typeform(AnyReplies(fields))
    \/ Drive

SpecAnswers == Init /\ [][NextAnswers]_vars

\* ------------------------------------------------------------- reading the trace
Seg(t, f) == SelectSeq(t, LAMBDA a : a.f = f)
Last(t) == t[Len(t)]
CountAct(t, a) == Len(SelectSeq(t, LAMBDA x : x.act = a))
Repeat(x, n) == [k \in 1..n |-> x]
InFill == pc \in {"fields", "close"}

\* the calls each type tag may make
CallsOfType(type) ==
    CASE type \in TextTypes -> {"type", "advance"}
      [] type \in ChoiceTypes -> {"press", "advance"}
      [] type = "dropdown" -> {"press", "advance"}
      [] type = "file_upload" -> {"download", "attach", "advance"}
      [] OTHER -> {"advance"}

ExampleSchema == <<EmailField, InterestField>>
ExampleAnswers == ("Email" :> StrV(s_email)) @@ ("Interest" :> StrV(<<"0">>))
ExampleTrace ==
    <<Act("type", s_email, 1), Advance(1), Act("press", <<"a">>, 2), Advance(2),
      Act("submit", <<"Control+Enter">>, 0)>>

\* C1: during and at the end of a fill the trace consists of one block of
\* calls per handled field, the blocks in schema order, each block made of
\* its type's calls and ending with an advance, no call for a field not yet
\* reached; the single Control+Enter comes last, after the last field's
\* advance; and the example schema with the example answers gives exactly
\* type "a@b.com", advance, press "a", advance, submit.
C1_FieldsInOrderThenSubmit ==
    InFill =>
      /\ \A i, j \in 1..Len(trace) :
           (i < j /\ trace[i].act # "submit" /\ trace[j].act # "submit")
             => trace[i].f <= trace[j].f
      /\ \A f \in 1..Len(fields) :
           IF f <= idx
           THEN /\ Seg(trace, f) # <<>>
                /\ Last(Seg(trace, f)) = Advance(f)
                /\ \A k \in 1..Len(Seg(trace, f)) :
                     Seg(trace, f)[k].act \in CallsOfType(fields[f].type)
           ELSE Seg(trace, f) = <<>>
      /\ \A k \in 1..Len(trace) : trace[k].f \in 0..Len(fields)
      /\ CountAct(trace, "submit") = (IF pc = "close" THEN 1 ELSE 0)
      /\ pc = "close" =>
           /\ idx = Len(fields)
           /\ Last(trace).act = "submit"
           /\ Len(fields) > 0 => trace[Len(trace) - 1] = Advance(Len(fields))
      /\ (pc = "close" /\ fields = ExampleSchema /\ answers.m = ExampleAnswers)
           => trace = ExampleTrace

C1_Witness ==
    /\ pc = "close"
    /\ fields = ExampleSchema
    /\ answers.m = ExampleAnswers
    /\ trace = ExampleTrace

\* C2: a call that raises while a field is handled ends in that field's
\* except clause: the field still gets its advance as the last call of its
\* block, the loop goes on to the remaining fields and the submit, and the
\* exceptions that do leave the program are never those of a field's calls.
C2_FieldFailureContained ==
    /\ InFill =>
         /\ faulted \subseteq caught
         /\ \A f \in caught :
              /\ f <= idx
              /\ Seg(trace, f) # <<>>
              /\ Last(Seg(trace, f)) = Advance(f)
         /\ pc = "close" =>
              /\ \A f \in 1..Len(fields) : CountAct(Seg(trace, f), "advance") >= 1
              /\ Last(trace).act = "submit"
    /\ pc = "crashed" =>
         /\ crashAt \in {"rows", "completion", "json", "launch", "load", "pause", "lookup",
                        "close"}
         /\ crashAt \in {"pause", "lookup"} =>
              \A f \in caught : Seg(trace, f) # <<>> /\ Last(Seg(trace, f)) = Advance(f)

\* the first field's call raised, and the second field and the submit followed
C2_Witness ==
    /\ pc = "close"
    /\ Len(fields) = 2
    /\ faulted = {1}
    /\ Seg(trace, 2) # <<>>
    /\ Last(trace).act = "submit"

LeftFill ==
    \/ pc \in {"loop", "done"} /\ row > 0
    \/ pc = "crashed" /\ crashAt \in {"launch", "load", "pause", "lookup", "close"}

\* C3 as claimed: whenever fill_and_submit_form has been left, on whatever
\* path, every session it launched has been closed by browser.close(), and
\* at most one session is open at any time.
C3_ClosedOnEveryExit ==
    /\ openSessions <= 1
    /\ LeftFill => (openSessions = 0 /\ \A r \in RowIds : closes[r] = sessions[r])

\* C3 amended: at most one session is open at any time; every session is
\* closed by browser.close() when fill_and_submit_form returns (submission
\* acknowledged or not, calls of a field or the submit having raised or not);
\* when an exception leaves the function after the launch (page load, the
\* pause or the answer lookup at the top of a field's iteration, or
\* browser.close() itself) the session has not been closed by browser.close().
C3_ClosedOnReturn ==
    /\ openSessions \in {0, 1}
    /\ \A r \in RowIds : sessions[r] <= 1 /\ closes[r] <= sessions[r]
    /\ pc \in {"loop", "done", "synth", "launch"} =>
         (openSessions = 0 /\ \A r \in RowIds : closes[r] = sessions[r])
    /\ (pc = "crashed" /\ crashAt \in {"load", "pause", "lookup", "close"}) =>
         (openSessions = 1 /\ closes[row] = 0 /\ sessions[row] = 1)
    /\ (pc = "crashed" /\ crashAt \notin {"load", "pause", "lookup", "close"}) =>
         openSessions = 0

\* a second row's session closed after a field's call raised and no
\* acknowledgment was seen
C3_Witness ==
    /\ pc = "loop"
    /\ row = 2
    /\ caught # {}
    /\ ack = "no_ack"
    /\ closes[1] = 1 /\ closes[2] = 1
    /\ openSessions = 0

\* the answer of a field by the rule "title first, then reference id"
TitleFirst(m, field) ==
    IF field.title \in DOMAIN m THEN m[field.title] ELSE Get(m, field.ref)

HandledFirst == InFill /\ idx = 1 /\ answers.kind = "object"

\* C4 as claimed: the calls made for a field are those of the title's value
\* when the answer map has the title, else those of the reference id's value
\* when it has the reference id, else those of no answer.
C4_TitleThenRef ==
    (HandledFirst /\ faulted = {}) =>
      Seg(trace, 1) = FieldCalls(fields[1], TitleFirst(answers.m, fields[1]), 1, 0)

\* an answer is supplied when it is a number or a non-empty string
Supplied(v) == v.kind = "int" \/ (v.kind = "str" /\ v.s # <<>>)

\* C5 as claimed: a free-text field gets exactly one type call, its text
\* non-empty and equal to the stringified answer when one is supplied and to
\* "N/A" otherwise, then exactly one advance, and nothing else.
C5_TypeOnceThenAdvance ==
    (HandledFirst /\ fields[1].type \in TextTypes) =>
      LET pv == ProvidedAnswer(answers.m, fields[1])
          text == IF Supplied(pv) THEN Str(pv) ELSE <<"N", "/", "A">>
      IN text # <<>> /\ Seg(trace, 1) = <<Act("type", text, 1), Advance(1)>>

\* C6 as claimed: a choice field gets one key press per comma-separated
\* token of its answer, in order, a numeric token i as the letter at
\* zero-based position i, then one advance; the numeric answer 0 presses "a".
C6_KeysPerToken ==
    (HandledFirst /\ fields[1].type \in ChoiceTypes /\ faulted = {}) =>
      LET v == TitleFirst(answers.m, fields[1])
          keys == ChoiceKeys(v)
      IN /\ Seg(trace, 1) = [k \in 1..Len(keys) |-> Act("press", keys[k], 1)]
                              \o <<Advance(1)>>
         /\ v = IntV(0) => Seg(trace, 1) = <<Act("press", <<"a">>, 1), Advance(1)>>

\* the number of move-downs the claim gives an answer
ClaimedMoves(pv) ==
    IF ~Supplied(pv) THEN 0
    ELSE IF IntOf(pv).ok THEN (IF IntOf(pv).n > 0 THEN IntOf(pv).n ELSE 0)
    ELSE 1

Down(f) == Act("press", <<"ArrowDown">>, f)

\* C7: a dropdown field handled without a raising call gets Tab, Enter, then
\* n ArrowDown presses and one advance, n being the answer's integer value
\* when it has one, 1 when it is present but has none, 0 when it is absent
\* (the answer "3" gives 3, "xy" gives 1); and even when a call raises, every
\* ArrowDown comes after Tab and Enter and only ArrowDowns stand between the
\* first ArrowDown and the field's final advance.
C7_DropdownMoves ==
    (HandledFirst /\ fields[1].type = "dropdown") =>
      LET pv == ProvidedAnswer(answers.m, fields[1])
          seg == Seg(trace, 1)
      IN /\ faulted = {} =>
              /\ seg = <<Act("press", <<"Tab">>, 1), Advance(1)>>
                         \o Repeat(Down(1), ClaimedMoves(pv)) \o <<Advance(1)>>
              /\ pv = StrV(<<"3">>) => CountAct(SelectSeq(seg, LAMBDA a : a = Down(1)), "press") = 3
              /\ pv = StrV(<<"x", "y">>) => CountAct(SelectSeq(seg, LAMBDA a : a = Down(1)), "press") = 1
              /\ pv = None => Down(1) \notin {seg[k] : k \in 1..Len(seg)}
         /\ \A i \in 1..Len(seg) :
              seg[i] = Down(1) =>
                /\ i > 2 /\ seg[1] = Act("press", <<"Tab">>, 1) /\ seg[2] = Advance(1)
                /\ \A j \in (i + 1)..(Len(seg) - 1) : seg[j] = Down(1)

C7_Witness ==
    /\ HandledFirst
    /\ fields[1].type = "dropdown"
    /\ faulted = {}
    /\ answers.m = ("Country" :> StrV(<<"3">>))
    /\ CountAct(SelectSeq(trace, LAMBDA a : a = Down(1)), "press") = 3

\* C8 as claimed: an upload field gets a download of the answer and the
\* temporary file attached when the answer is a string beginning with
\* "http", the placeholder attached for every other answer (absent, another
\* string, a number), in both cases exactly one attach, then one advance.
C8_AttachOnce ==
    (HandledFirst /\ fields[1].type = "file_upload" /\ faulted = {}) =>
      LET pv == ProvidedAnswer(answers.m, fields[1])
      IN /\ Seg(trace, 1) =
              IF pv.kind = "str" /\ StartsWith(pv.s, <<"h", "t", "t", "p">>)
              THEN <<Act("download", pv.s, 1), Act("attach", TmpFileName, 1), Advance(1)>>
              ELSE <<Act("attach", PITCH_DECK_PATH, 1), Advance(1)>>
         /\ CountAct(Seg(trace, 1), "attach") = 1

\* C9: when get_form_fields took its except branch it returned the empty
\* list and the run goes on with it: no field is handled and the only call
\* a fill makes is the submit.
C9_FetchFailureGivesNoFields ==
    fetchFailed =>
      /\ fields = <<>>
      /\ idx = 0 /\ caught = {}
      /\ \A k \in 1..Len(trace) : trace[k].act = "submit"

\* after a failed fetch the second row is still synthesized and submitted
C9_Witness ==
    /\ fetchFailed
    /\ pc = "close"
    /\ row = 2
    /\ closes[1] = 1
    /\ trace = <<Act("submit", <<"Control+Enter">>, 0)>>

\* C10: the schema is fetched once; rows are taken in order, each synthesized
\* at most once and filled at most once after its synthesis; every row before
\* the current one was synthesized, filled, submitted and closed once; and
\* when the reply for row k is no JSON the program stops there, with no
\* session for row k and nothing done for any later row.
C10_RowsInOrderJsonAborts ==
    /\ fetches = (IF pc \in {"rows", "schema"} \/ crashAt = "rows" THEN 0 ELSE 1)
    /\ row <= nrows
    /\ \A r \in RowIds :
         /\ synths[r] <= 1 /\ sessions[r] <= synths[r] /\ submits[r] <= sessions[r]
         /\ r < row => (synths[r] = 1 /\ sessions[r] = 1 /\ submits[r] = 1 /\ closes[r] = 1)
         /\ r > row => (synths[r] = 0 /\ sessions[r] = 0 /\ submits[r] = 0)
    /\ (pc = "crashed" /\ crashAt = "json") =>
         /\ row >= 1
         /\ synths[row] = 1 /\ sessions[row] = 0 /\ submits[row] = 0
         /\ openSessions = 0

\* the reply for the second of two rows is no JSON
C10_Witness ==
    /\ pc = "crashed" /\ crashAt = "json"
    /\ row = 2 /\ nrows >= 2
    /\ submits[1] = 1
====
